---- MODULE Spec2Model ----
(***************************************************************************)
(* Model of the jc `git log` batch parser (src/jc/parsers/git_log.py) and  *)
(* of the streaming parser template (src/jc/parsers/foo_s.py).             *)
(*                                                                         *)
(* A Python str is a sequence of one-character strings, so that the        *)
(* string operations the parser uses (startswith, split, rsplit, strip,    *)
(* the two regular expressions) are computed character by character.       *)
(* A character outside printable ASCII that TLA+ has no escape for is      *)
(* written as the one-element string "U+XXXX" of its code point.           *)
(* A Python dict is a function whose domain is the set of its keys.        *)
(* The batch parser is modelled in raw mode (raw=True): the list returned  *)
(* is raw_output, not passed through _process.                             *)
(***************************************************************************)
EXTENDS Integers, Sequences, FiniteSets, TLC

\* Longest input, in lines, given to the batch parser.
MaxLines == 3

\* Longest line stream given to the streaming parser.
MaxStreamLines == 3

(***************************************************************************)
(* Character classes and string operations                                 *)
(***************************************************************************)

\* The linear breaks str.splitlines() splits at: none occurs inside a line
\* of data.splitlines().
LineBreaks ==
    {"\n", "U+000B", "\f", "\r", "U+001C", "U+001D", "U+001E", "U+0085",
     "U+2028", "U+2029"}

\* The whitespace of str.split(), str.strip() and of \s in a str pattern:
\* the characters c with c.isspace().
Whitespace ==
    LineBreaks \cup
    {"\t", "U+001F", " ", "U+00A0", "U+1680", "U+2000", "U+2001", "U+2002",
     "U+2003", "U+2004", "U+2005", "U+2006", "U+2007", "U+2008", "U+2009",
     "U+200A", "U+202F", "U+205F", "U+3000"}

\* the range [0-9]
AsciiDigits == {"0", "1", "2", "3", "4", "5", "6", "7", "8", "9"}

\* the decimal digits (category Nd) outside ASCII
UnicodeDigits ==
    {"U+0660", "U+0661", "U+0662", "U+0663", "U+0664",
     "U+0665", "U+0666", "U+0667", "U+0668", "U+0669",
     "U+06F0", "U+06F1", "U+06F2", "U+06F3", "U+06F4",
     "U+06F5", "U+06F6", "U+06F7", "U+06F8", "U+06F9",
     "U+07C0", "U+07C1", "U+07C2", "U+07C3", "U+07C4",
     "U+07C5", "U+07C6", "U+07C7", "U+07C8", "U+07C9",
     "U+0966", "U+0967", "U+0968", "U+0969", "U+096A",
     "U+096B", "U+096C", "U+096D", "U+096E", "U+096F",
     "U+09E6", "U+09E7", "U+09E8", "U+09E9", "U+09EA",
     "U+09EB", "U+09EC", "U+09ED", "U+09EE", "U+09EF",
     "U+0A66", "U+0A67", "U+0A68", "U+0A69", "U+0A6A",
     "U+0A6B", "U+0A6C", "U+0A6D", "U+0A6E", "U+0A6F",
     "U+0AE6", "U+0AE7", "U+0AE8", "U+0AE9", "U+0AEA",
     "U+0AEB", "U+0AEC", "U+0AED", "U+0AEE", "U+0AEF",
     "U+0B66", "U+0B67", "U+0B68", "U+0B69", "U+0B6A",
     "U+0B6B", "U+0B6C", "U+0B6D", "U+0B6E", "U+0B6F",
     "U+0BE6", "U+0BE7", "U+0BE8", "U+0BE9", "U+0BEA",
     "U+0BEB", "U+0BEC", "U+0BED", "U+0BEE", "U+0BEF",
     "U+0C66", "U+0C67", "U+0C68", "U+0C69", "U+0C6A",
     "U+0C6B", "U+0C6C", "U+0C6D", "U+0C6E", "U+0C6F",
     "U+0CE6", "U+0CE7", "U+0CE8", "U+0CE9", "U+0CEA",
     "U+0CEB", "U+0CEC", "U+0CED", "U+0CEE", "U+0CEF",
     "U+0D66", "U+0D67", "U+0D68", "U+0D69", "U+0D6A",
     "U+0D6B", "U+0D6C", "U+0D6D", "U+0D6E", "U+0D6F",
     "U+0DE6", "U+0DE7", "U+0DE8", "U+0DE9", "U+0DEA",
     "U+0DEB", "U+0DEC", "U+0DED", "U+0DEE", "U+0DEF",
     "U+0E50", "U+0E51", "U+0E52", "U+0E53", "U+0E54",
     "U+0E55", "U+0E56", "U+0E57", "U+0E58", "U+0E59",
     "U+0ED0", "U+0ED1", "U+0ED2", "U+0ED3", "U+0ED4",
     "U+0ED5", "U+0ED6", "U+0ED7", "U+0ED8", "U+0ED9",
     "U+0F20", "U+0F21", "U+0F22", "U+0F23", "U+0F24",
     "U+0F25", "U+0F26", "U+0F27", "U+0F28", "U+0F29",
     "U+1040", "U+1041", "U+1042", "U+1043", "U+1044",
     "U+1045", "U+1046", "U+1047", "U+1048", "U+1049",
     "U+1090", "U+1091", "U+1092", "U+1093", "U+1094",
     "U+1095", "U+1096", "U+1097", "U+1098", "U+1099",
     "U+17E0", "U+17E1", "U+17E2", "U+17E3", "U+17E4",
     "U+17E5", "U+17E6", "U+17E7", "U+17E8", "U+17E9",
     "U+1810", "U+1811", "U+1812", "U+1813", "U+1814",
     "U+1815", "U+1816", "U+1817", "U+1818", "U+1819",
     "U+1946", "U+1947", "U+1948", "U+1949", "U+194A",
     "U+194B", "U+194C", "U+194D", "U+194E", "U+194F",
     "U+19D0", "U+19D1", "U+19D2", "U+19D3", "U+19D4",
     "U+19D5", "U+19D6", "U+19D7", "U+19D8", "U+19D9",
     "U+1A80", "U+1A81", "U+1A82", "U+1A83", "U+1A84",
     "U+1A85", "U+1A86", "U+1A87", "U+1A88", "U+1A89",
     "U+1A90", "U+1A91", "U+1A92", "U+1A93", "U+1A94",
     "U+1A95", "U+1A96", "U+1A97", "U+1A98", "U+1A99",
     "U+1B50", "U+1B51", "U+1B52", "U+1B53", "U+1B54",
     "U+1B55", "U+1B56", "U+1B57", "U+1B58", "U+1B59",
     "U+1BB0", "U+1BB1", "U+1BB2", "U+1BB3", "U+1BB4",
     "U+1BB5", "U+1BB6", "U+1BB7", "U+1BB8", "U+1BB9",
     "U+1C40", "U+1C41", "U+1C42", "U+1C43", "U+1C44",
     "U+1C45", "U+1C46", "U+1C47", "U+1C48", "U+1C49",
     "U+1C50", "U+1C51", "U+1C52", "U+1C53", "U+1C54",
     "U+1C55", "U+1C56", "U+1C57", "U+1C58", "U+1C59",
     "U+A620", "U+A621", "U+A622", "U+A623", "U+A624",
     "U+A625", "U+A626", "U+A627", "U+A628", "U+A629",
     "U+A8D0", "U+A8D1", "U+A8D2", "U+A8D3", "U+A8D4",
     "U+A8D5", "U+A8D6", "U+A8D7", "U+A8D8", "U+A8D9",
     "U+A900", "U+A901", "U+A902", "U+A903", "U+A904",
     "U+A905", "U+A906", "U+A907", "U+A908", "U+A909",
     "U+A9D0", "U+A9D1", "U+A9D2", "U+A9D3", "U+A9D4",
     "U+A9D5", "U+A9D6", "U+A9D7", "U+A9D8", "U+A9D9",
     "U+A9F0", "U+A9F1", "U+A9F2", "U+A9F3", "U+A9F4",
     "U+A9F5", "U+A9F6", "U+A9F7", "U+A9F8", "U+A9F9",
     "U+AA50", "U+AA51", "U+AA52", "U+AA53", "U+AA54",
     "U+AA55", "U+AA56", "U+AA57", "U+AA58", "U+AA59",
     "U+ABF0", "U+ABF1", "U+ABF2", "U+ABF3", "U+ABF4",
     "U+ABF5", "U+ABF6", "U+ABF7", "U+ABF8", "U+ABF9",
     "U+FF10", "U+FF11", "U+FF12", "U+FF13", "U+FF14",
     "U+FF15", "U+FF16", "U+FF17", "U+FF18", "U+FF19",
     "U+104A0", "U+104A1", "U+104A2", "U+104A3", "U+104A4",
     "U+104A5", "U+104A6", "U+104A7", "U+104A8", "U+104A9",
     "U+10D30", "U+10D31", "U+10D32", "U+10D33", "U+10D34",
     "U+10D35", "U+10D36", "U+10D37", "U+10D38", "U+10D39",
     "U+11066", "U+11067", "U+11068", "U+11069", "U+1106A",
     "U+1106B", "U+1106C", "U+1106D", "U+1106E", "U+1106F",
     "U+110F0", "U+110F1", "U+110F2", "U+110F3", "U+110F4",
     "U+110F5", "U+110F6", "U+110F7", "U+110F8", "U+110F9",
     "U+11136", "U+11137", "U+11138", "U+11139", "U+1113A",
     "U+1113B", "U+1113C", "U+1113D", "U+1113E", "U+1113F",
     "U+111D0", "U+111D1", "U+111D2", "U+111D3", "U+111D4",
     "U+111D5", "U+111D6", "U+111D7", "U+111D8", "U+111D9",
     "U+112F0", "U+112F1", "U+112F2", "U+112F3", "U+112F4",
     "U+112F5", "U+112F6", "U+112F7", "U+112F8", "U+112F9",
     "U+11450", "U+11451", "U+11452", "U+11453", "U+11454",
     "U+11455", "U+11456", "U+11457", "U+11458", "U+11459",
     "U+114D0", "U+114D1", "U+114D2", "U+114D3", "U+114D4",
     "U+114D5", "U+114D6", "U+114D7", "U+114D8", "U+114D9",
     "U+11650", "U+11651", "U+11652", "U+11653", "U+11654",
     "U+11655", "U+11656", "U+11657", "U+11658", "U+11659",
     "U+116C0", "U+116C1", "U+116C2", "U+116C3", "U+116C4",
     "U+116C5", "U+116C6", "U+116C7", "U+116C8", "U+116C9",
     "U+11730", "U+11731", "U+11732", "U+11733", "U+11734",
     "U+11735", "U+11736", "U+11737", "U+11738", "U+11739",
     "U+118E0", "U+118E1", "U+118E2", "U+118E3", "U+118E4",
     "U+118E5", "U+118E6", "U+118E7", "U+118E8", "U+118E9",
     "U+11950", "U+11951", "U+11952", "U+11953", "U+11954",
     "U+11955", "U+11956", "U+11957", "U+11958", "U+11959",
     "U+11C50", "U+11C51", "U+11C52", "U+11C53", "U+11C54",
     "U+11C55", "U+11C56", "U+11C57", "U+11C58", "U+11C59",
     "U+11D50", "U+11D51", "U+11D52", "U+11D53", "U+11D54",
     "U+11D55", "U+11D56", "U+11D57", "U+11D58", "U+11D59",
     "U+11DA0", "U+11DA1", "U+11DA2", "U+11DA3", "U+11DA4",
     "U+11DA5", "U+11DA6", "U+11DA7", "U+11DA8", "U+11DA9",
     "U+16A60", "U+16A61", "U+16A62", "U+16A63", "U+16A64",
     "U+16A65", "U+16A66", "U+16A67", "U+16A68", "U+16A69",
     "U+16AC0", "U+16AC1", "U+16AC2", "U+16AC3", "U+16AC4",
     "U+16AC5", "U+16AC6", "U+16AC7", "U+16AC8", "U+16AC9",
     "U+16B50", "U+16B51", "U+16B52", "U+16B53", "U+16B54",
     "U+16B55", "U+16B56", "U+16B57", "U+16B58", "U+16B59",
     "U+1D7CE", "U+1D7CF", "U+1D7D0", "U+1D7D1", "U+1D7D2",
     "U+1D7D3", "U+1D7D4", "U+1D7D5", "U+1D7D6", "U+1D7D7",
     "U+1D7D8", "U+1D7D9", "U+1D7DA", "U+1D7DB", "U+1D7DC",
     "U+1D7DD", "U+1D7DE", "U+1D7DF", "U+1D7E0", "U+1D7E1",
     "U+1D7E2", "U+1D7E3", "U+1D7E4", "U+1D7E5", "U+1D7E6",
     "U+1D7E7", "U+1D7E8", "U+1D7E9", "U+1D7EA", "U+1D7EB",
     "U+1D7EC", "U+1D7ED", "U+1D7EE", "U+1D7EF", "U+1D7F0",
     "U+1D7F1", "U+1D7F2", "U+1D7F3", "U+1D7F4", "U+1D7F5",
     "U+1D7F6", "U+1D7F7", "U+1D7F8", "U+1D7F9", "U+1D7FA",
     "U+1D7FB", "U+1D7FC", "U+1D7FD", "U+1D7FE", "U+1D7FF",
     "U+1E140", "U+1E141", "U+1E142", "U+1E143", "U+1E144",
     "U+1E145", "U+1E146", "U+1E147", "U+1E148", "U+1E149",
     "U+1E2F0", "U+1E2F1", "U+1E2F2", "U+1E2F3", "U+1E2F4",
     "U+1E2F5", "U+1E2F6", "U+1E2F7", "U+1E2F8", "U+1E2F9",
     "U+1E950", "U+1E951", "U+1E952", "U+1E953", "U+1E954",
     "U+1E955", "U+1E956", "U+1E957", "U+1E958", "U+1E959",
     "U+1FBF0", "U+1FBF1", "U+1FBF2", "U+1FBF3", "U+1FBF4",
     "U+1FBF5", "U+1FBF6", "U+1FBF7", "U+1FBF8", "U+1FBF9"}

\* \d in a str pattern: every Unicode decimal digit
Digits == AsciiDigits \cup UnicodeDigits

\* the character class (?:[0-9]|[a-f]) of hash_pattern
HexLower == AsciiDigits \cup {"a", "b", "c", "d", "e", "f"}

\* s[pos:] with a 1-based index (empty when pos is past the end)
From(s, pos) == SubSeq(s, pos, Len(s))

\* str.startswith(prefix)
StartsWith(s, prefix) ==
    /\ Len(s) >= Len(prefix)
    /\ SubSeq(s, 1, Len(prefix)) = prefix

\* first index j >= pos with s[j] not in set; Len(s)+1 when there is none
RECURSIVE SkipWhile(_, _, _)
SkipWhile(s, pos, set) ==
    IF pos > Len(s) \/ s[pos] \notin set THEN pos ELSE SkipWhile(s, pos + 1, set)

\* last index j <= pos with s[j] not in set; 0 when there is none
RECURSIVE SkipBack(_, _, _)
SkipBack(s, pos, set) ==
    IF pos < 1 \/ s[pos] \notin set THEN pos ELSE SkipBack(s, pos - 1, set)

\* first index j >= pos with s[j] in set; Len(s)+1 when there is none
RECURSIVE SkipTo(_, _, _)
SkipTo(s, pos, set) ==
    IF pos > Len(s) \/ s[pos] \in set THEN pos ELSE SkipTo(s, pos + 1, set)

\* last index j <= pos with s[j] in set; 0 when there is none
RECURSIVE SkipBackTo(_, _, _)
SkipBackTo(s, pos, set) ==
    IF pos < 1 \/ s[pos] \in set THEN pos ELSE SkipBackTo(s, pos - 1, set)

\* str.strip(chars): both ends stripped of the characters of set
StripSet(s, set) ==
    LET a == SkipWhile(s, 1, set)
        b == SkipBack(s, Len(s), set)
    IN  IF a > b THEN <<>> ELSE SubSeq(s, a, b)

\* str.strip()
Strip(s) == StripSet(s, Whitespace)

\* str.split(maxsplit=1): split on the first run of whitespace; leading
\* whitespace is dropped, the remainder keeps its trailing whitespace
Split1(s) ==
    LET a == SkipWhile(s, 1, Whitespace)
        b == SkipTo(s, a, Whitespace)
        r == SkipWhile(s, b, Whitespace)
    IN  IF a > Len(s) THEN <<>>
        ELSE IF r > Len(s) THEN <<SubSeq(s, a, b - 1)>>
        ELSE <<SubSeq(s, a, b - 1), From(s, r)>>

\* str.rsplit(maxsplit=1): split on the last run of whitespace; trailing
\* whitespace is dropped, the remainder keeps its leading whitespace
RSplit1(s) ==
    LET b == SkipBack(s, Len(s), Whitespace)
        a == SkipBackTo(s, b, Whitespace)
        r == SkipBack(s, a, Whitespace)
    IN  IF b < 1 THEN <<>>
        ELSE IF r < 1 THEN <<SubSeq(s, a + 1, b)>>
        ELSE <<SubSeq(s, 1, r), SubSeq(s, a + 1, b)>>

\* sub in s
Contains(s, sub) ==
    \E pos \in 1..(Len(s) - Len(sub) + 1) : SubSeq(s, pos, pos + Len(sub) - 1) = sub

\* s.split(sep)[0] for a one-character separator: the text before the first sep
BeforeFirst(s, sep) ==
    LET hits == {pos \in 1..Len(s) : s[pos] = sep}
    IN  IF hits = {} THEN s
        ELSE SubSeq(s, 1, (CHOOSE pos \in hits : \A j \in hits : pos <= j) - 1)

\* sep.join(lines) for a one-character separator
RECURSIVE Join(_, _)
Join(lines, sep) ==
    IF lines = <<>> THEN <<>>
    ELSE IF Len(lines) = 1 THEN lines[1]
    ELSE lines[1] \o <<sep>> \o Join(Tail(lines), sep)

(***************************************************************************)
(* String literals of git_log.py                                           *)
(***************************************************************************)

\* line 254: 'commit '
PrefixCommit == <<"c", "o", "m", "m", "i", "t", " ">>

\* line 269: 'Merge: '
PrefixMerge == <<"M", "e", "r", "g", "e", ":", " ">>

\* line 273: 'Author: '
PrefixAuthor == <<"A", "u", "t", "h", "o", "r", ":", " ">>

\* line 279: 'Date: '
PrefixDate == <<"D", "a", "t", "e", ":", " ">>

\* line 283: 'AuthorDate: '
PrefixAuthorDate == <<"A", "u", "t", "h", "o", "r", "D", "a", "t", "e", ":", " ">>

\* line 287: 'CommitDate: '
PrefixCommitDate == <<"C", "o", "m", "m", "i", "t", "D", "a", "t", "e", ":", " ">>

\* line 291: 'Commit: '
PrefixCommitBy == <<"C", "o", "m", "m", "i", "t", ":", " ">>

\* line 297: '    '
FourSpaces == <<" ", " ", " ", " ">>

\* lines 238, 301, 307: ' '
OneSpace == <<" ">>

\* lines 301, 307: 'changed, '
ChangedComma == <<"c", "h", "a", "n", "g", "e", "d", ",", " ">>

\* lines 316-318: '0'
Zero == <<"0">>

\* changes_pattern: file
LitFile == <<"f", "i", "l", "e">>

\* changes_pattern: ' changed' (after the optional s)
LitChanged == <<" ", "c", "h", "a", "n", "g", "e", "d">>

\* changes_pattern: insertion
LitInsertion == <<"i", "n", "s", "e", "r", "t", "i", "o", "n">>

\* changes_pattern: \(\+\)
LitPlus == <<"(", "+", ")">>

(***************************************************************************)
(* Python values                                                           *)
(***************************************************************************)

\* None (a regex group that took no part in the match)
None == <<"<None>">>

\* a local name that has not been assigned yet
Unbound == <<"<unbound>">>

\* {}
EmptyDict == [k \in {} |-> <<>>]

\* k in d
Has(d, k) == DOMAIN d # {} /\ k \in DOMAIN d

\* d[k] = v
Put(d, k, v) ==
    IF DOMAIN d = {} THEN [x \in {k} |-> v]
    ELSE [x \in (DOMAIN d) \cup {k} |-> IF x = k THEN v ELSE d[x]]

\* truth value of a str, list or dict: non-empty
Truthy(v) == DOMAIN v # {}

\* a or b, for a a str or None
Or(a, b) == IF a = None \/ a = <<>> THEN b ELSE a

(***************************************************************************)
(* The two regular expressions                                             *)
(***************************************************************************)

\* the literal lit occurs in s at index pos
LitAt(s, pos, lit) ==
    /\ pos + Len(lit) - 1 <= Len(s)
    /\ SubSeq(s, pos, pos + Len(lit) - 1) = lit

\* index after an optional character c at index pos
AfterOpt(s, pos, c) == IF pos <= Len(s) /\ s[pos] = c THEN pos + 1 ELSE pos

\* hash_pattern.match(s): (?:[0-9]|[a-f]){40} anchored at the start of s
hash_pattern(s) ==
    /\ Len(s) >= 40
    /\ \A pos \in 1..40 : s[pos] \in HexLower

\* _is_commit_hash(hash_string)
_is_commit_hash(hash_string) ==
    IF Len(hash_string) # 40 THEN FALSE
    ELSE IF hash_pattern(hash_string) THEN TRUE
    ELSE FALSE

\* changes_pattern.match(line), anchored at the start of line:
\*   \s(?P<files>\d+)\s+(files? changed),\s+(?P<insertions>\d+)\s
\*   (insertions?\(\+\))?(,\s+)?(?P<deletions>\d+)?(\s+deletions?\(\-\))?
\* Every quantifier is followed by a character outside its class, so the
\* greedy choice is the only one the matcher can succeed with.  The result
\* is [matched |-> FALSE] or the three named groups, None for a group
\* which took no part in the match.
changes_pattern(line) ==
    LET f1 == 2                                   \* after \s
        f2 == SkipWhile(line, f1, Digits)         \* after (?P<files>\d+)
        w1 == SkipWhile(line, f2, Whitespace)     \* after \s+
        s1 == AfterOpt(line, w1 + 4, "s")         \* after files?
        c1 == s1 + 8                              \* after ' changed'
        w2 == SkipWhile(line, c1 + 1, Whitespace) \* after ,\s+
        i2 == SkipWhile(line, w2, Digits)         \* after (?P<insertions>\d+)
        g0 == i2 + 1                              \* after \s
        s2 == AfterOpt(line, g0 + 9, "s")         \* after insertions?
        g1 == IF LitAt(line, g0, LitInsertion) /\ LitAt(line, s2, LitPlus)
              THEN s2 + 3 ELSE g0                 \* after (insertions?\(\+\))?
        w3 == SkipWhile(line, g1 + 1, Whitespace)
        g2 == IF g1 <= Len(line) /\ line[g1] = "," /\ w3 > g1 + 1
              THEN w3 ELSE g1                     \* after (,\s+)?
        d2 == SkipWhile(line, g2, Digits)         \* after (?P<deletions>\d+)?
        ok == /\ Len(line) >= 1 /\ line[1] \in Whitespace
              /\ f2 > f1
              /\ w1 > f2
              /\ LitAt(line, w1, LitFile)
              /\ LitAt(line, s1, LitChanged)
              /\ c1 <= Len(line) /\ line[c1] = ","
              /\ w2 > c1 + 1
              /\ i2 > w2
              /\ i2 <= Len(line) /\ line[i2] \in Whitespace
    IN  IF ~ok THEN [matched |-> FALSE]
        ELSE [matched    |-> TRUE,
              files      |-> SubSeq(line, f1, f2 - 1),
              insertions |-> SubSeq(line, w2, i2 - 1),
              deletions  |-> IF d2 > g2 THEN SubSeq(line, g2, d2 - 1) ELSE None]

(***************************************************************************)
(* Input lines                                                             *)
(***************************************************************************)

\* two commit hashes, and a 40-character token that is not lowercase hex
H1 == [k \in 1..40 |-> "a"]

H2 == [k \in 1..40 |-> "7"]

NotHash == [k \in 1..40 |-> IF k = 40 THEN "g" ELSE "a"]

\* "<H2> one": a oneline-style boundary
OnelineLine == H2 \o <<" ", "o", "n", "e">>

\* "<H2>": a oneline-style boundary with nothing after the hash
OnelineBare == H2

\* "commit <H1>"
CommitLine == PrefixCommit \o H1

\* 'commit ': a 'commit ' boundary with nothing after it
CommitBare == <<"c", "o", "m", "m", "i", "t", " ">>

\* 'Merge: a b'
MergeLine == <<"M", "e", "r", "g", "e", ":", " ", "a", " ", "b">>

\* 'Author: A B <a@x>'
AuthorLine == <<"A", "u", "t", "h", "o", "r", ":", " ", "A", " ", "B", " ", "<", "a", "@", "x", ">">>

\* 'Author: solo': a single-token value
AuthorSolo == <<"A", "u", "t", "h", "o", "r", ":", " ", "s", "o", "l", "o">>

\* 'Date: D 1'
DateLine == <<"D", "a", "t", "e", ":", " ", "D", " ", "1">>

\* 'Date: ': an empty value
DateEmpty == <<"D", "a", "t", "e", ":", " ">>

\* 'AuthorDate: D 2'
AuthorDateLine == <<"A", "u", "t", "h", "o", "r", "D", "a", "t", "e", ":", " ", "D", " ", "2">>

\* 'CommitDate: D 3'
CommitDateLine == <<"C", "o", "m", "m", "i", "t", "D", "a", "t", "e", ":", " ", "D", " ", "3">>

\* 'Commit: C <c@x>'
CommitByLine == <<"C", "o", "m", "m", "i", "t", ":", " ", "C", " ", "<", "c", "@", "x", ">">>

\* '    m1'
Msg1 == <<" ", " ", " ", " ", "m", "1">>

\* '    m2'
Msg2 == <<" ", " ", " ", " ", "m", "2">>

\* '     m3': five spaces
Msg5 == <<" ", " ", " ", " ", " ", "m", "3">>

\* '    changed, z': four spaces, and the substring 'changed, '
MsgChanged == <<" ", " ", " ", " ", "c", "h", "a", "n", "g", "e", "d", ",", " ", "z">>

\* ' f.py | 3 +'
File1 == <<" ", "f", ".", "p", "y", " ", "|", " ", "3", " ", "+">>

\* ' g | 1 -'
File2 == <<" ", "g", " ", "|", " ", "1", " ", "-">>

\* ' 2 files changed, 3 insertions(+), 2 deletions(-)'
SumBoth == <<" ", "2", " ", "f", "i", "l", "e", "s", " ", "c", "h", "a", "n", "g", "e", "d", ",", " ", "3", " ", "i", "n", "s", "e", "r", "t", "i", "o", "n", "s", "(", "+", ")", ",", " ", "2", " ", "d", "e", "l", "e", "t", "i", "o", "n", "s", "(", "-", ")">>

\* ' 1 file changed, 5 insertions(+)'
SumIns == <<" ", "1", " ", "f", "i", "l", "e", " ", "c", "h", "a", "n", "g", "e", "d", ",", " ", "5", " ", "i", "n", "s", "e", "r", "t", "i", "o", "n", "s", "(", "+", ")">>

\* ' 1 file changed, 4 deletions(-)'
SumDel == <<" ", "1", " ", "f", "i", "l", "e", " ", "c", "h", "a", "n", "g", "e", "d", ",", " ", "4", " ", "d", "e", "l", "e", "t", "i", "o", "n", "s", "(", "-", ")">>

\* ' x changed, y': classified as a change summary, not matched by changes_pattern
SumBad == <<" ", "x", " ", "c", "h", "a", "n", "g", "e", "d", ",", " ", "y">>

\* ''
EmptyLine == <<>>

\* "<NotHash> zz": matches no role
NotHashLine == NotHash \o <<" ", "z", "z">>

\* ' U+0663 files changed,U+00A05 insertions(+)': an Arabic-Indic digit three and a no-break space
SumUnicode == <<" ", "U+0663", " ", "f", "i", "l", "e", "s", " ", "c", "h", "a", "n", "g", "e", "d", ",", "U+00A0", "5", " ", "i", "n", "s", "e", "r", "t", "i", "o", "n", "s", "(", "+", ")">>

\* a tab and 'x'
TabLine == <<"\t", "x">>

\* the lines an input is made of
Lines ==
    {OnelineLine, OnelineBare, CommitLine, CommitBare,
     MergeLine, AuthorLine, AuthorSolo, DateLine,
     DateEmpty, AuthorDateLine, CommitDateLine, CommitByLine,
     Msg1, Msg2, File1, File2,
     SumBoth, SumIns, SumDel, SumBad,
     EmptyLine, NotHashLine, Msg5, MsgChanged, TabLine, SumUnicode}

\* the inputs: data.splitlines() of every text of at most MaxLines of these lines
Inputs == UNION {[1..n -> Lines] : n \in 0..MaxLines}

(***************************************************************************)
(* State                                                                   *)
(***************************************************************************)

\* Each behaviour is one call: of git_log.parse under Spec, of foo_s.parse
\* under StreamSpec.  The parameters and the loop position are shared by the
\* two; the locals of the other parser never change.
VARIABLES
    data,           \* git_log: data.splitlines(); foo_s: the lines of data
    raw,            \* the raw parameter
    quiet,          \* the quiet parameter
    i,              \* number of lines the for loop has consumed
    pc,             \* where the call is
    exc,            \* the exception raised, "none" otherwise
    raw_output,     \* list of finished records
    output_line,    \* the record being assembled; {} when none is open
    message_lines,  \* pending message-body lines
    file_list,      \* pending file names
    files,          \* locals bound by the first matching change summary
    insertions,
    deletions,
    rec_aliases,    \* indices of raw_output that are the object output_line names
    list_aliases,   \* indices of raw_output whose stats['files'] is the object file_list names
    stream_line,    \* foo_s: the loop variable line
    yielded         \* foo_s: the units the generator has yielded so far

vars == <<data, raw, quiet, i, pc, exc, raw_output, output_line, message_lines,
          file_list, files, insertions, deletions, rec_aliases, list_aliases,
          stream_line, yielded>>

\* what git_log.parse never touches, and what foo_s.parse never touches
stream_vars == <<stream_line, yielded>>

batch_locals == <<raw_output, output_line, message_lines, file_list,
                  files, insertions, deletions, rec_aliases, list_aliases>>

(***************************************************************************)
(* Batch parser: git_log.parse(data, raw=True)                             *)
(***************************************************************************)

\* jc.utils.has_data(data): the text is not empty and not whitespace only
has_data(lines) ==
    \E k \in 1..Len(lines) : \E j \in 1..Len(lines[k]) : lines[k][j] \notin Whitespace

\* line_list = line.split(maxsplit=1)
line_list(line) == Split1(line)

\* Branch, had the file-name test (line 301) come before the message test
\* (line 297)
BranchFileFirst(line) ==
    IF ~StartsWith(line, OneSpace) /\ line_list(line) # <<>>
       /\ _is_commit_hash(line_list(line)[1])            THEN "oneline"
    ELSE IF StartsWith(line, PrefixCommit)               THEN "commit"
    ELSE IF StartsWith(line, PrefixMerge)                THEN "merge"
    ELSE IF StartsWith(line, PrefixAuthor)               THEN "author"
    ELSE IF StartsWith(line, PrefixDate)                 THEN "date"
    ELSE IF StartsWith(line, PrefixAuthorDate)           THEN "author_date"
    ELSE IF StartsWith(line, PrefixCommitDate)           THEN "commit_date"
    ELSE IF StartsWith(line, PrefixCommitBy)             THEN "commit_by"
    ELSE IF StartsWith(line, OneSpace)
            /\ ~Contains(line, ChangedComma)             THEN "file"
    ELSE IF StartsWith(line, FourSpaces)                 THEN "message"
    ELSE IF StartsWith(line, OneSpace)
            /\ Contains(line, ChangedComma)              THEN "summary"
    ELSE "none"

\* The if-chain of the loop body: the first test that holds selects the
\* branch (each branch ends with continue).
Branch(line) ==
    IF ~StartsWith(line, OneSpace) /\ line_list(line) # <<>>
       /\ _is_commit_hash(line_list(line)[1])            THEN "oneline"
    ELSE IF StartsWith(line, PrefixCommit)               THEN "commit"
    ELSE IF StartsWith(line, PrefixMerge)                THEN "merge"
    ELSE IF StartsWith(line, PrefixAuthor)               THEN "author"
    ELSE IF StartsWith(line, PrefixDate)                 THEN "date"
    ELSE IF StartsWith(line, PrefixAuthorDate)           THEN "author_date"
    ELSE IF StartsWith(line, PrefixCommitDate)           THEN "commit_date"
    ELSE IF StartsWith(line, PrefixCommitBy)             THEN "commit_by"
    ELSE IF StartsWith(line, FourSpaces)                 THEN "message"
    ELSE IF StartsWith(line, OneSpace)
            /\ ~Contains(line, ChangedComma)             THEN "file"
    ELSE IF StartsWith(line, OneSpace)
            /\ Contains(line, ChangedComma)              THEN "summary"
    ELSE "none"

\* Branch and line_list tabulated over the lines of the inputs
RECURSIVE BranchTable(_)
BranchTable(set) ==
    LET l == CHOOSE x \in set : TRUE
    IN  IF set = {l} THEN l :> Branch(l)
        ELSE (l :> Branch(l)) @@ BranchTable(set \ {l})

BranchOf == BranchTable(Lines)

RECURSIVE LineListTable(_)
LineListTable(set) ==
    LET l == CHOOSE x \in set : TRUE
    IN  IF set = {l} THEN l :> line_list(l)
        ELSE (l :> line_list(l)) @@ LineListTable(set \ {l})

LineListOf == LineListTable(Lines)

\* the call starts: lines 224-232
Init ==
    /\ data \in Inputs
    /\ raw = TRUE
    /\ quiet = FALSE    \* only passed to jc.utils.compatibility, line 224
    /\ i = 0
    /\ pc = "start"
    /\ exc = "none"
    /\ raw_output = <<>>
    /\ output_line = EmptyDict
    /\ message_lines = <<>>
    /\ file_list = <<>>
    /\ files = Unbound
    /\ insertions = Unbound
    /\ deletions = Unbound
    /\ rec_aliases = {}
    /\ list_aliases = {}
    /\ stream_line = Unbound
    /\ yielded = <<>>

\* if jc.utils.has_data(data): enter the loop, else skip it
Enter ==
    /\ pc = "start"
    /\ pc' = IF has_data(data) THEN "loop" ELSE "end"
    /\ UNCHANGED <<data, raw, quiet, i, exc, batch_locals, stream_vars>>

\* the locals of parse, as one value
Locals ==
    [raw_output |-> raw_output, output_line |-> output_line,
     message_lines |-> message_lines, file_list |-> file_list,
     files |-> files, insertions |-> insertions, deletions |-> deletions,
     rec_aliases |-> rec_aliases, list_aliases |-> list_aliases,
     exc |-> exc]

\* the locals when the call starts: lines 227-230
InitLocals ==
    [raw_output |-> <<>>, output_line |-> EmptyDict,
     message_lines |-> <<>>, file_list |-> <<>>,
     files |-> Unbound, insertions |-> Unbound, deletions |-> Unbound,
     rec_aliases |-> {}, list_aliases |-> {},
     exc |-> "none"]

\* an exception of class e leaves parse: no list is returned
Raise(st, e) == [st EXCEPT !.exc = e]

\* output_line['stats']['files'] = file_list
AttachFiles(rec, fl) == Put(rec, "stats", Put(rec["stats"], "files", fl))

\* output_line['message'] = '\n'.join(message_lines)
JoinMessage(rec, ml) == Put(rec, "message", Join(ml, "\n"))

\* output_line['stats'] raises KeyError: files are pending, the record has no stats
FilesWithoutStats(rec, fl) == Truthy(fl) /\ ~Has(rec, "stats")

\* the record appended by the 'commit ' boundary (lines 256-262) and by the
\* end of input (lines 322-328)
Finalize(rec, ml, fl) ==
    LET r1 == IF Truthy(ml) THEN JoinMessage(rec, ml) ELSE rec
    IN  IF Truthy(fl) THEN AttachFiles(r1, fl) ELSE r1

\* the record appended by the oneline boundary (lines 240-243):
\* message_lines are not joined into it
FinalizeOneline(rec, ml, fl) ==
    IF Truthy(fl) THEN AttachFiles(rec, fl) ELSE rec

\* A store through the name output_line (output_line[k] = v): every
\* reference to the same dict object sees it.
StoreRecord(st, rec) ==
    [st EXCEPT
        !.output_line = rec,
        !.raw_output =
            IF st.rec_aliases = {} THEN @
            ELSE [k \in DOMAIN @ |-> IF k \in st.rec_aliases THEN rec ELSE @[k]]]

\* A change of the list object file_list names (file_list.append(x)): every
\* record whose stats['files'] is that object sees it.
StoreFiles(st, fl) ==
    [st EXCEPT
        !.file_list = fl,
        !.raw_output =
            IF st.list_aliases = {} THEN @
            ELSE [k \in DOMAIN @ |->
                    IF k \in st.list_aliases THEN AttachFiles(@[k], fl) ELSE @[k]]]

\* raw_output.append(output_line): the list holds a reference to the object
\* output_line names; attached tells that its stats['files'] is file_list
AppendRecord(st, attached) ==
    LET n == Len(st.raw_output) + 1
    IN  [st EXCEPT
            !.raw_output = Append(@, st.output_line),
            !.rec_aliases = @ \cup {n},
            !.list_aliases = IF attached THEN @ \cup {n} ELSE @]

\* BindRecord, had the code emptied the dict in place (output_line.clear())
ClearRecord(st, rec) == StoreRecord(st, rec)

\* output_line = {...}: the name is bound to a new dict object
BindRecord(st, rec) == [st EXCEPT !.output_line = rec, !.rec_aliases = {}]

\* file_list = []: the name is bound to a new list object
BindFiles(st, fl) == [st EXCEPT !.file_list = fl, !.list_aliases = {}]

\* The flush of the open record as rec, lines 240-246 and 256-265: the
\* message and the files are stored into it, it is appended, and the three
\* names are bound to new empty objects.
Flush(st, rec) ==
    LET stored   == StoreRecord(st, rec)
        appended == AppendRecord(stored, Truthy(st.file_list))
        rebound  == BindRecord(appended, EmptyDict)
    IN  BindFiles([rebound EXCEPT !.message_lines = <<>>], <<>>)

\* oneline style: lines 238-251
OnelineStep(st, line) ==
    LET ll   == LineListOf[line]
        open == Truthy(st.output_line)
        base == IF open
                THEN Flush(st, FinalizeOneline(st.output_line, st.message_lines,
                                               st.file_list))
                ELSE st
    IN  IF open /\ FilesWithoutStats(st.output_line, st.file_list)
        THEN Raise(st, "KeyError")
        ELSE IF Len(ll) < 2
        THEN Raise(st, "IndexError")
        ELSE BindRecord(base, [commit |-> ll[1], message |-> ll[2]])

\* all other styles: lines 254-267
CommitStep(st, line) ==
    LET ll   == LineListOf[line]
        open == Truthy(st.output_line)
        base == IF open
                THEN Flush(st, Finalize(st.output_line, st.message_lines,
                                        st.file_list))
                ELSE st
    IN  IF open /\ FilesWithoutStats(st.output_line, st.file_list)
        THEN Raise(st, "KeyError")
        ELSE IF Len(ll) < 2
        THEN Raise(st, "IndexError")
        ELSE StoreRecord(base, Put(base.output_line, "commit", ll[2]))

\* output_line[key] = line_list[1]: lines 270, 280, 284, 288
SetField(st, line, key) ==
    LET ll == LineListOf[line]
    IN  IF Len(ll) < 2
        THEN Raise(st, "IndexError")
        ELSE StoreRecord(st, Put(st.output_line, key, ll[2]))

\* values = line_list[1].rsplit(maxsplit=1); name and e-mail:
\* lines 274-276 and 292-294
SetPerson(st, line, name_key, email_key) ==
    LET ll     == LineListOf[line]
        values == RSplit1(ll[2])
    IN  IF Len(ll) < 2
        THEN Raise(st, "IndexError")
        ELSE IF Len(values) < 2
        THEN Raise(st, "IndexError")
        ELSE StoreRecord(st,
                 Put(Put(st.output_line, name_key, values[1]),
                     email_key, StripSet(StripSet(values[2], {"<"}), {">"})))

\* lines 297-299
MessageStep(st, line) ==
    [st EXCEPT !.message_lines = Append(@, Strip(line))]

\* lines 301-305
FileStep(st, line) ==
    StoreFiles(st, Append(st.file_list, Strip(BeforeFirst(line, "|"))))

\* the stats dict of lines 315-319
StatsDict(f, ins, del) ==
    [files_changed |-> Or(f, Zero),
     insertions    |-> Or(ins, Zero),
     deletions     |-> Or(del, Zero)]

\* the stat summary: lines 307-319.  files, insertions and deletions are
\* assigned only when the pattern matches; otherwise they keep the values of
\* the last summary line that matched, and reading them raises
\* UnboundLocalError when no line has matched yet.
SummaryStep(st, line) ==
    LET changes == changes_pattern(line)
        f   == IF changes.matched THEN changes.files ELSE st.files
        ins == IF changes.matched THEN changes.insertions ELSE st.insertions
        del == IF changes.matched THEN changes.deletions ELSE st.deletions
    IN  IF f = Unbound
        THEN Raise(st, "UnboundLocalError")
        ELSE StoreRecord([st EXCEPT !.files = f, !.insertions = ins,
                                    !.deletions = del],
                         Put(st.output_line, "stats", StatsDict(f, ins, del)))

\* one pass of the loop body over line, whose branch is b: lines 235-319
LineStep(st, line, b) ==
    CASE b = "oneline"     -> OnelineStep(st, line)
      [] b = "commit"      -> CommitStep(st, line)
      [] b = "merge"       -> SetField(st, line, "merge")
      [] b = "author"      -> SetPerson(st, line, "author", "author_email")
      [] b = "date"        -> SetField(st, line, "date")
      [] b = "author_date" -> SetField(st, line, "date")
      [] b = "commit_date" -> SetField(st, line, "commit_by_date")
      [] b = "commit_by"   -> SetPerson(st, line, "commit_by", "commit_by_email")
      [] b = "message"     -> MessageStep(st, line)
      [] b = "file"        -> FileStep(st, line)
      [] b = "summary"     -> SummaryStep(st, line)
      [] b = "none"        -> st

\* after the loop: lines 321-328
FinishStep(st) ==
    IF ~Truthy(st.output_line) THEN st
    ELSE IF FilesWithoutStats(st.output_line, st.file_list)
    THEN Raise(st, "KeyError")
    ELSE LET rec == Finalize(st.output_line, st.message_lines, st.file_list)
         IN  AppendRecord(StoreRecord(st, rec), Truthy(st.file_list))

\* the locals are those of st
SetLocals(st) ==
    /\ raw_output' = st.raw_output
    /\ output_line' = st.output_line
    /\ message_lines' = st.message_lines
    /\ file_list' = st.file_list
    /\ files' = st.files
    /\ insertions' = st.insertions
    /\ deletions' = st.deletions
    /\ rec_aliases' = st.rec_aliases
    /\ list_aliases' = st.list_aliases
    /\ exc' = st.exc

\* if output_line: a record is open
IsOpen == Truthy(output_line)

\* the loop is about to run its body on the next line, whose branch is b
AtBranch(b) ==
    /\ pc = "loop"
    /\ i < Len(data)
    /\ BranchOf[data[i + 1]] = b

\* the body left the locals as st: the loop goes on to the following line
\* (continue) unless the body raised
Continue(st) ==
    /\ SetLocals(st)
    /\ pc' = IF st.exc = "none" THEN "loop" ELSE "raised"
    /\ i' = i + 1
    /\ UNCHANGED <<data, raw, quiet, stream_vars>>

\* lines 238-251
Oneline ==
    /\ AtBranch("oneline")
    /\ Continue(OnelineStep(Locals, data[i + 1]))

\* lines 254-267
Commit ==
    /\ AtBranch("commit")
    /\ Continue(CommitStep(Locals, data[i + 1]))

\* lines 269-271
Merge ==
    /\ AtBranch("merge")
    /\ Continue(SetField(Locals, data[i + 1], "merge"))

\* lines 273-277
Author ==
    /\ AtBranch("author")
    /\ Continue(SetPerson(Locals, data[i + 1], "author", "author_email"))

\* lines 279-281
Date ==
    /\ AtBranch("date")
    /\ Continue(SetField(Locals, data[i + 1], "date"))

\* lines 283-285
AuthorDate ==
    /\ AtBranch("author_date")
    /\ Continue(SetField(Locals, data[i + 1], "date"))

\* lines 287-289
CommitDate ==
    /\ AtBranch("commit_date")
    /\ Continue(SetField(Locals, data[i + 1], "commit_by_date"))

\* lines 291-295
CommitBy ==
    /\ AtBranch("commit_by")
    /\ Continue(SetPerson(Locals, data[i + 1], "commit_by", "commit_by_email"))

\* lines 297-299
MessageBody ==
    /\ AtBranch("message")
    /\ Continue(MessageStep(Locals, data[i + 1]))

\* lines 301-305
FileName ==
    /\ AtBranch("file")
    /\ Continue(FileStep(Locals, data[i + 1]))

\* lines 307-319
ChangeSummary ==
    /\ AtBranch("summary")
    /\ Continue(SummaryStep(Locals, data[i + 1]))

\* Unrecognized, had the loop body ended with a catch-all that buffers the
\* line as message text
UnrecognizedAsMessage ==
    /\ AtBranch("none")
    /\ Continue(MessageStep(Locals, data[i + 1]))

\* no test of the loop body holds: the line is skipped
Unrecognized ==
    /\ AtBranch("none")
    /\ Continue(Locals)

\* the loop is over or was skipped: lines 321-330 (raw=True: raw_output is
\* returned as it is)
Finish ==
    /\ pc = "end" \/ (pc = "loop" /\ i = Len(data))
    /\ LET st == FinishStep(Locals)
       IN  /\ SetLocals(st)
           /\ pc' = IF st.exc = "none" THEN "returned" ELSE "raised"
    /\ UNCHANGED <<data, raw, quiet, i, stream_vars>>

Next ==
    \/ Enter
    \/ Oneline
    \/ Commit
    \/ Merge
    \/ Author
    \/ Date
    \/ AuthorDate
    \/ CommitDate
    \/ CommitBy
    \/ MessageBody
    \/ FileName
    \/ ChangeSummary
    \/ Unrecognized
    \/ Finish

Spec == Init /\ [][Next]_vars

\* parse(data, raw=True) as a function of the lines of data: the locals
\* after the loop has run over lines[1..n], stopping at the first exception
RECURSIVE LoopOver(_, _)
LoopOver(lines, n) ==
    IF n = 0 THEN InitLocals
    ELSE LET st == LoopOver(lines, n - 1)
         IN  IF st.exc # "none" THEN st
             ELSE LineStep(st, lines[n], BranchOf[lines[n]])

\* the locals when parse(data, raw=True) ends
ParseLocals(lines) ==
    LET st == IF has_data(lines) THEN LoopOver(lines, Len(lines)) ELSE InitLocals
    IN  IF st.exc # "none" THEN st ELSE FinishStep(st)

\* Longer inputs made of the lines of a full-style log with a diffstat
MaxDiffstatLines == 4

DiffstatLines == {CommitLine, Msg1, Msg2, File1, File2, SumBoth}

DiffstatInputs == UNION {[1..n -> DiffstatLines] : n \in 0..MaxDiffstatLines}

\* parse is called on one of these inputs
DiffstatInit ==
    /\ data \in DiffstatInputs
    /\ raw = TRUE
    /\ quiet = FALSE
    /\ i = 0
    /\ pc = "start"
    /\ exc = "none"
    /\ raw_output = <<>>
    /\ output_line = EmptyDict
    /\ message_lines = <<>>
    /\ file_list = <<>>
    /\ files = Unbound
    /\ insertions = Unbound
    /\ deletions = Unbound
    /\ rec_aliases = {}
    /\ list_aliases = {}
    /\ stream_line = Unbound
    /\ yielded = <<>>

\* the branches of the loop body these lines take
DiffstatNext ==
    \/ Enter
    \/ Commit
    \/ MessageBody
    \/ FileName
    \/ ChangeSummary
    \/ Finish

DiffstatSpec == DiffstatInit /\ [][DiffstatNext]_vars

(***************************************************************************)
(* Properties of the batch parser (checked under Spec)                     *)
(***************************************************************************)

\* A record-boundary line: it starts with 'commit ', or it is not indented
\* and its first token is exactly 40 lowercase-hex characters.
IsBoundaryLine(l) ==
    \/ StartsWith(l, PrefixCommit)
    \/ /\ ~StartsWith(l, OneSpace)
       /\ Split1(l) # <<>>
       /\ Len(Split1(l)[1]) = 40
       /\ \A k \in 1..40 : Split1(l)[1][k] \in HexLower

RECURSIVE IsBoundaryTable(_)
IsBoundaryTable(set) ==
    LET l == CHOOSE x \in set : TRUE
    IN  IF set = {l} THEN l :> IsBoundaryLine(l)
        ELSE (l :> IsBoundaryLine(l)) @@ IsBoundaryTable(set \ {l})

IsBoundaryOf == IsBoundaryTable(Lines)

\* the identifier a boundary line carries: the text after 'commit ', or the
\* 40-hex token of a oneline boundary (the empty string when there is none)
BoundaryId(l) ==
    IF StartsWith(l, PrefixCommit)
    THEN (IF Len(Split1(l)) >= 2 THEN Split1(l)[2] ELSE <<>>)
    ELSE Split1(l)[1]

\* the identifiers of the boundary lines of lines, in order
RECURSIVE BoundaryIds(_)
BoundaryIds(lines) ==
    IF lines = <<>> THEN <<>>
    ELSE (IF IsBoundaryOf[Head(lines)] THEN <<BoundaryId(Head(lines))>> ELSE <<>>)
         \o BoundaryIds(Tail(lines))

\* the loop has consumed every line, or was skipped: the end of input
AtEndOfInput == pc = "end" \/ (pc = "loop" /\ i = Len(data))

\* the line the loop body has just run on, when it went on to the next
JustProcessed(b) == pc = "loop" /\ i >= 1 /\ BranchOf[data[i]] = b

\* C1: for every input the number of records returned equals the number of
\* record-boundary lines of the input, whatever other lines come before the
\* first boundary or between boundaries (no data: the empty list).
C1_RecordsEqualBoundaries ==
    pc = "returned" => Len(raw_output) = Len(BoundaryIds(data))

\* C2: a record that is open when the last line has been consumed is
\* returned exactly once, as the last element of the list, whatever message
\* lines and file names are pending and whether or not it has stats.
C2_OpenRecordFlushedOnce ==
    [][(AtEndOfInput /\ IsOpen) =>
         /\ pc' = "returned"
         /\ Len(raw_output') = Len(raw_output) + 1
         /\ \A k \in DOMAIN output_line \ {"message", "stats"} :
                /\ Has(raw_output'[Len(raw_output')], k)
                /\ raw_output'[Len(raw_output')][k] = output_line[k]]_vars

\* C3: batch parse never raises, whatever the lines are.
C3_NeverRaises == exc = "none" /\ pc # "raised"

\* the count that precedes the unit word in a change-summary line, "0" when
\* the line does not have the unit word
CountBefore(l, unit) ==
    LET hits == {p \in 1..Len(l) : LitAt(l, p, unit)}
        p    == CHOOSE q \in hits : \A r \in hits : q <= r
        b    == SkipBack(l, p - 1, Whitespace)
        a    == SkipBack(l, b, Digits)
    IN  IF hits = {} \/ a = b THEN Zero ELSE SubSeq(l, a + 1, b)

LitDeletion == <<"d", "e", "l", "e", "t", "i", "o", "n">>

\* the Stats a change-summary line stands for
ExpectedStats(l) ==
    [files_changed |-> CountBefore(l, LitFile),
     insertions    |-> CountBefore(l, LitInsertion),
     deletions     |-> CountBefore(l, LitDeletion)]

\* C4: the Stats attached for a change-summary line hold the count before
\* each unit word: files_changed before 'file(s) changed', insertions before
\* 'insertion(s)(+)', deletions before 'deletion(s)(-)', and "0" for a clause
\* that is absent.
C4_StatsAreTheCounts ==
    (JustProcessed("summary") /\ CountBefore(data[i], LitFile) # Zero)
        => /\ Has(output_line, "stats")
           /\ output_line["stats"] = ExpectedStats(data[i])

\* C5: a change-summary line that the stats pattern does not match leaves
\* the current record unchanged and raises no error: no stats are attached
\* for it, in particular none taken from an earlier summary line.
C5_UnmatchedSummaryIsSkipped ==
    [][(AtBranch("summary") /\ ~changes_pattern(data[i + 1]).matched) =>
         /\ pc' = "loop"
         /\ output_line' = output_line]_vars

\* C6: every flush uses the same finalization, whichever event triggers it:
\* the record appended is the open record with the pending message lines
\* joined by newlines as its message and the pending file names attached to
\* its stats.
C6_OneFinalization ==
    [][Len(raw_output') = Len(raw_output) + 1 =>
         raw_output'[Len(raw_output')] =
             Finalize(output_line, message_lines, file_list)]_vars

\* C7: when A and B each parse without error, parsing A followed by B
\* returns the records of A followed by the records of B.
C7_ConcatenationOfInputs ==
    pc \in {"returned", "raised"} =>
        \A k \in 0..Len(data) :
            LET A == ParseLocals(SubSeq(data, 1, k))
                B == ParseLocals(SubSeq(data, k + 1, Len(data)))
            IN  (A.exc = "none" /\ B.exc = "none") =>
                    /\ pc = "returned"
                    /\ raw_output = A.raw_output \o B.raw_output

\* C8: the k-th returned record carries the identifier of the k-th boundary
\* line of the input.
C8_KthRecordKthBoundary ==
    pc = "returned" =>
        \A k \in 1..Len(raw_output) :
            /\ k <= Len(BoundaryIds(data))
            /\ Has(raw_output[k], "commit")
            /\ raw_output[k]["commit"] = BoundaryIds(data)[k]

(***************************************************************************)
(* Streaming parser: the generator foo_s.parse(data, raw, quiet)           *)
(***************************************************************************)

\* the lines a stream is made of
StreamLines == {CommitLine, AuthorSolo, EmptyLine}

\* the streams: every sequence of at most MaxStreamLines of these lines
Streams == UNION {[1..n -> StreamLines] : n \in 0..MaxStreamLines}

\* An exception is the method resolution order of its class, type(e).__mro__,
\* as class names; no exception is the empty tuple.
NoException == <<>>

\* the exception raised for a name that is not bound
NameError == <<"NameError", "Exception", "BaseException", "object">>

\* The names bound when the try body runs: the parameters and the loop
\* variable of parse, and the globals of the module.  The body is the
\* template's placeholder ("parse the input here"): output_line is never
\* assigned.
BoundNames ==
    {"data", "raw", "quiet", "line", "jc", "info", "__version__", "_process", "parse"}

\* _process(proc_data): returns its argument
_process(proc_data) == proc_data

\* jc.utils.stream_error(e, quiet, line): the failure unit, for both values
\* of quiet
stream_error(e, q, l) == [success |-> FALSE, error_msg |-> e[1], line |-> l]

\* The try body, lines 90-98: [raised |-> e] when it raises e, otherwise
\* [raised |-> NoException, unit |-> the value it yields].
TryBody(q, r) ==
    IF "output_line" \notin BoundNames
    THEN [raised |-> NameError]           \* line 93, 96 or 98
    ELSE LET bare == EmptyDict
             out  == IF q THEN Put(bare, "_meta", [success |-> TRUE]) ELSE bare
         IN  [raised |-> NoException, unit |-> IF r THEN out ELSE _process(out)]

\* except Exception as e (line 100): the exception is caught when its class
\* is Exception or derives from it, that is when Exception is in its MRO
Catches(e) == \E k \in 1..Len(e) : e[k] = "Exception"

\* the generator object is created; nothing runs before the first next()
StreamInit ==
    /\ data \in Streams
    /\ raw \in BOOLEAN
    /\ quiet \in BOOLEAN
    /\ i = 0
    /\ pc = "for"
    /\ exc = NoException
    /\ stream_line = Unbound
    /\ yielded = <<>>
    /\ raw_output = <<>>
    /\ output_line = EmptyDict
    /\ message_lines = <<>>
    /\ file_list = <<>>
    /\ files = Unbound
    /\ insertions = Unbound
    /\ deletions = Unbound
    /\ rec_aliases = {}
    /\ list_aliases = {}

\* for line in data: the next line is taken from the source (line 88)
StreamFor ==
    /\ pc = "for"
    /\ i < Len(data)
    /\ stream_line' = data[i + 1]
    /\ i' = i + 1
    /\ pc' = "try"
    /\ UNCHANGED <<data, raw, quiet, exc, yielded, batch_locals>>

\* the try body runs on the line (lines 89-98): it yields a unit, or raises
\* into the except clause, or raises out of the generator
StreamTry ==
    /\ pc = "try"
    /\ LET r == TryBody(quiet, raw)
       IN  IF r.raised = NoException
           THEN /\ yielded' = Append(yielded, r.unit)
                /\ pc' = "yielded"
                /\ exc' = exc
           ELSE /\ yielded' = yielded
                /\ pc' = IF Catches(r.raised) THEN "except" ELSE "raised"
                /\ exc' = r.raised
    /\ UNCHANGED <<data, raw, quiet, i, stream_line, batch_locals>>

\* StreamExcept, had the handler swallowed the exception without a yield
StreamExceptNoYield ==
    /\ pc = "except"
    /\ pc' = "for"
    /\ exc' = NoException
    /\ UNCHANGED <<data, raw, quiet, i, stream_line, yielded, batch_locals>>

\* except Exception as e: yield jc.utils.stream_error(e, quiet, line)
\* (lines 100-101)
StreamExcept ==
    /\ pc = "except"
    /\ yielded' = Append(yielded, stream_error(exc, quiet, stream_line))
    /\ pc' = "yielded"
    /\ exc' = NoException
    /\ UNCHANGED <<data, raw, quiet, i, stream_line, batch_locals>>

\* the consumer asks for the next unit: the generator resumes after its
\* yield and goes back to the for statement
StreamResume ==
    /\ pc = "yielded"
    /\ pc' = "for"
    /\ UNCHANGED <<data, raw, quiet, i, exc, stream_line, yielded, batch_locals>>

\* the source is exhausted: the generator returns (StopIteration)
StreamStop ==
    /\ pc = "for"
    /\ i = Len(data)
    /\ pc' = "stopped"
    /\ UNCHANGED <<data, raw, quiet, i, exc, stream_line, yielded, batch_locals>>

StreamNext ==
    \/ StreamFor
    \/ StreamTry
    \/ StreamExcept
    \/ StreamResume
    \/ StreamStop

StreamSpec == StreamInit /\ [][StreamNext]_vars

(***************************************************************************)
(* Properties of the streaming parser (checked under StreamSpec)           *)
(***************************************************************************)

\* C9: the streaming parse yields exactly one unit per input line, in input
\* order: when n lines have been consumed, n units have been yielded (n - 1
\* while the n-th line is still being processed), and the generator returns
\* only when every line has given its unit.
C9_OneUnitPerLine ==
    /\ pc \in {"for", "yielded", "stopped"} => Len(yielded) = i
    /\ pc \in {"try", "except"} => Len(yielded) = i - 1
    /\ pc = "stopped" => Len(yielded) = Len(data)
    /\ \A k \in 1..Len(yielded) :
           Has(yielded[k], "line") => yielded[k]["line"] = data[k]

\* C9 witness: a stream of three lines has been consumed to its end and
\* three units have been yielded
C9_Witness ==
    /\ pc = "stopped"
    /\ Len(data) = 3
    /\ i = 3
    /\ Len(yielded) = 3

\* the next line to process is a boundary line that directly follows a
\* 'commit <id>' boundary line, both carrying what their style requires
AtSecondOfBoundaryPair ==
    /\ pc = "loop"
    /\ i >= 1
    /\ i < Len(data)
    /\ BranchOf[data[i]] = "commit"
    /\ Len(LineListOf[data[i]]) >= 2
    /\ BranchOf[data[i + 1]] \in {"oneline", "commit"}
    /\ Len(LineListOf[data[i + 1]]) >= 2

\* C13: a boundary line immediately followed by another boundary line
\* produces a record whose only populated field is commit, whatever lines
\* preceded the pair, and parsing does not fail (stated for a first
\* boundary of the 'commit <id>' form, as in the two-boundary example).
C13_EmptyRecordBetweenBoundaries ==
    [][AtSecondOfBoundaryPair =>
         /\ pc' = "loop"
         /\ raw_output' = Append(raw_output,
                                 [commit |-> BoundaryId(data[i])])]_vars

\* C14: immediately after a record-boundary line has been processed, from
\* Idle or from Open, the pending message buffer and the pending file-name
\* buffer are empty.
C14_BuffersEmptyAfterBoundary ==
    (JustProcessed("oneline") \/ JustProcessed("commit")) =>
        /\ message_lines = <<>>
        /\ file_list = <<>>

\* the position of the last boundary line among the first n lines, 0 when
\* there is none: the line that opened the record open after n lines
LastBoundary(n) ==
    LET ks == {k \in 1..n : IsBoundaryOf[data[k]]}
    IN  IF ks = {} THEN 0 ELSE CHOOSE k \in ks : \A j \in ks : j <= k

\* C15: a record opened by a oneline boundary (40-hex token followed by
\* text) is emitted with commit equal to the token and message equal to the
\* entire remainder of the boundary line, whatever lines followed it and
\* whichever event flushes it.
C15_OnelineKeepsItsMessage ==
    [][(/\ Len(raw_output') = Len(raw_output) + 1
        /\ LastBoundary(i) # 0
        /\ BranchOf[data[LastBoundary(i)]] = "oneline") =>
         LET l   == data[LastBoundary(i)]
             rec == raw_output'[Len(raw_output')]
         IN  /\ Has(rec, "commit")
             /\ rec["commit"] = Split1(l)[1]
             /\ Has(rec, "message")
             /\ rec["message"] = Split1(l)[2]]_vars

\* s is t with some of its elements left out
RECURSIVE IsSubsequence(_, _)
IsSubsequence(s, t) ==
    IF s = <<>> THEN TRUE
    ELSE IF t = <<>> THEN FALSE
    ELSE IF Head(s) = Head(t) THEN IsSubsequence(Tail(s), Tail(t))
    ELSE IsSubsequence(s, Tail(t))

\* what the lines of branch b among lines from+1..to give, in source order:
\* the file names of file-name lines, the text of message-body lines
RECURSIVE Collected(_, _, _)
Collected(b, from, to) ==
    IF to <= from THEN <<>>
    ELSE Collected(b, from, to - 1)
         \o (IF BranchOf[data[to]] # b THEN <<>>
             ELSE IF b = "file" THEN <<Strip(BeforeFirst(data[to], "|"))>>
             ELSE <<Strip(data[to])>>)

\* C16: a record emitted with stats and at least one file-name line since
\* its boundary line has as stats.files exactly the file names of the
\* file-name lines seen since that boundary line, in source order, with
\* duplicates kept; and the message of a full-style record holds its
\* message-body lines in source order.
C16_FilesAndMessageInOrder ==
    [][(/\ Len(raw_output') = Len(raw_output) + 1
        /\ LastBoundary(i) # 0) =>
         LET rec   == raw_output'[Len(raw_output')]
             names == Collected("file", LastBoundary(i), i)
             body  == Collected("message", LastBoundary(i), i)
         IN  /\ (Has(rec, "stats") /\ names # <<>>) =>
                    /\ Has(rec["stats"], "files")
                    /\ rec["stats"]["files"] = names
             /\ (BranchOf[data[LastBoundary(i)]] = "commit" /\ body # <<>>) =>
                    /\ Has(rec, "message")
                    /\ IsSubsequence(body, message_lines)
                    /\ rec["message"] = Join(message_lines, "\n")]_vars

\* C17: a record is never modified after it has been flushed: the output
\* list only grows by appending, and processing any later line leaves every
\* record already in the list, its stats and files list included, as it
\* was.
C17_FlushedRecordsAreFrozen ==
    [][/\ Len(raw_output') \in {Len(raw_output), Len(raw_output) + 1}
       /\ \A k \in 1..Len(raw_output) : raw_output'[k] = raw_output[k]]_vars

\* C17 witness: a record with stats and a files list was flushed by a
\* boundary line, and a later file-name line has been processed
C17_Witness ==
    /\ pc = "loop"
    /\ Len(raw_output) >= 1
    /\ Has(raw_output[1], "stats")
    /\ Has(raw_output[1]["stats"], "files")
    /\ Truthy(output_line)
    /\ Truthy(file_list)

\* the line begins with one of the field prefixes or with 'commit '
HasKnownPrefix(l) ==
    \E p \in {PrefixCommit, PrefixMerge, PrefixAuthor, PrefixDate,
              PrefixAuthorDate, PrefixCommitDate, PrefixCommitBy} :
        StartsWith(l, p)

\* A line that matches no role: the empty line, or a non-indented line
\* with none of the known prefixes whose first token is not a 40-hex hash.
MatchesNoRole(l) ==
    \/ l = <<>>
    \/ /\ l[1] \notin Whitespace
       /\ ~HasKnownPrefix(l)
       /\ ~IsBoundaryLine(l)

RECURSIVE NoRoleTable(_)
NoRoleTable(set) ==
    LET l == CHOOSE x \in set : TRUE
    IN  IF set = {l} THEN l :> MatchesNoRole(l)
        ELSE (l :> MatchesNoRole(l)) @@ NoRoleTable(set \ {l})

\* MatchesNoRole over the lines of the inputs
NoRoleOf == NoRoleTable(Lines)

\* C18: a line that matches no role changes nothing, whether or not a
\* record is open: the open record, the pending message buffer, the pending
\* file-name buffer and the output list are left as they were, and the loop
\* goes on.
C18_UnrecognizedIsANoOp ==
    [][(pc = "loop" /\ i < Len(data) /\ NoRoleOf[data[i + 1]]) =>
         /\ pc' = "loop"
         /\ output_line' = output_line
         /\ message_lines' = message_lines
         /\ file_list' = file_list
         /\ raw_output' = raw_output]_vars

\* C18 witness: a line that matches no role has been processed while a
\* record was open and message text was pending
C18_Witness ==
    /\ pc = "loop"
    /\ i >= 2
    /\ NoRoleOf[data[i]]
    /\ IsOpen
    /\ message_lines # <<>>

\* the effect of processing line l in the role named by r
ActsInRole(r, l) ==
    CASE r = "message" ->
             /\ pc' = "loop"
             /\ message_lines' = Append(message_lines, Strip(l))
             /\ UNCHANGED <<output_line, file_list, raw_output>>
      [] r = "file" ->
             /\ pc' = "loop"
             /\ file_list' = Append(file_list, Strip(BeforeFirst(l, "|")))
             /\ UNCHANGED <<output_line, message_lines, raw_output>>
      [] r = "summary" ->
             /\ pc' = "raised" \/ Has(output_line', "stats")
             /\ UNCHANGED <<message_lines, file_list, raw_output>>

\* the line begins with four spaces and no fifth
ExactlyFourSpaces(l) ==
    StartsWith(l, FourSpaces) /\ (Len(l) = 4 \/ l[5] # " ")

\* C19 as stated: whatever came before and whether or not a record is
\* open, a line beginning with whitespace is a message-body line when it
\* begins with exactly four spaces, otherwise a change summary when it
\* contains 'changed, ', otherwise a file name.
C19_IndentedLineRoles ==
    [][(pc = "loop" /\ i < Len(data) /\ data[i + 1] # <<>>
        /\ data[i + 1][1] \in Whitespace) =>
         LET l == data[i + 1]
         IN  ActsInRole(IF ExactlyFourSpaces(l) THEN "message"
                        ELSE IF Contains(l, ChangedComma) THEN "summary"
                        ELSE "file", l)]_vars

\* C19 amended: whatever came before and whether or not a record is open,
\* a line beginning with a space is a message-body line when it begins with
\* four spaces (more may follow), otherwise a change summary when it
\* contains 'changed, ', otherwise a file name.
C19_SpaceIndentedLineRoles ==
    [][(pc = "loop" /\ i < Len(data) /\ StartsWith(data[i + 1], OneSpace)) =>
         LET l == data[i + 1]
         IN  ActsInRole(IF StartsWith(l, FourSpaces) THEN "message"
                        ELSE IF Contains(l, ChangedComma) THEN "summary"
                        ELSE "file", l)]_vars

\* C19 witness: a line of five spaces and text has been processed as
\* message text while a record was open and a file name was pending
C19_Witness ==
    /\ pc = "loop"
    /\ i = 3
    /\ data[3] = Msg5
    /\ IsOpen
    /\ file_list # <<>>
    /\ message_lines = <<Strip(Msg5)>>

\* the line just processed is the second change-summary line the open
\* record, opened by a boundary line, has received
SecondSummaryProcessed ==
    /\ JustProcessed("summary")
    /\ LastBoundary(i) # 0
    /\ \E j \in (LastBoundary(i) + 1)..(i - 1) : BranchOf[data[j]] = "summary"

\* C20: when a record receives two change-summary lines the last one wins:
\* its stats are exactly the counts of the second line, "0" for a count the
\* line does not have, and nothing of the first line's counts remains.
C20_LastSummaryWins ==
    SecondSummaryProcessed =>
        /\ Has(output_line, "stats")
        /\ output_line["stats"] = ExpectedStats(data[i])

====
